---- MODULE Spec2Model ----
(***************************************************************************)
(* Model of the BMM beamline instrument package (bmm_instrument):          *)
(*   - devices/: the mock/live device classes, their constructors and the  *)
(*     methods that talk to hardware (specification Spec);                 *)
(*   - devices/optics.py BMMDCM: the energy <-> Bragg angle conversion     *)
(*     (specification SpecDCM);                                            *)
(*   - plans/: the plan functions that build point lists and metadata and  *)
(*     hand scans to the run engine (specification SpecPlans), the plan    *)
(*     registry (SpecRegistry) and the plans that emit their messages one  *)
(*     by one (SpecMessages).                                              *)
(***************************************************************************)
EXTENDS Integers, Sequences, FiniteSets, TLC

VARIABLES
    env,        \* os.environ: the two variables the constructors read
    dev,        \* the device object under test (NoDevice before construction)
    ctor,       \* what the last constructor call did
    lastcall,   \* what the last method call on dev did
    energy_in,  \* the energy (eV) the caller passes to the DCM
    conv,       \* the last energy/angle conversions made on the DCM
    caller_md,  \* the metadata dictionary object the caller owns (or None)
    run,        \* the last plan call: what it built, handed over and raised
    query,      \* the last plan-registry lookups and what they returned
    gen         \* the plan run in progress: its calls and messages in order

----------------------------------------------------------------------------
(* Device classes                                                          *)

MotorClasses == {"BMMMotor", "XAFSMotor", "FMBOMotor", "EndStationMotor", "EncodedMotor"}

DetectorClasses ==
    {"BMMQuadEM", "BMMIonChamber", "BMMXspress3", "BMMPilatus", "BMMEiger",
     "BMMDante", "BMMScaler"}

OpticsClasses == {"BMMMirror", "BMMDCM", "BMMSlits", "BMMShutter"}

SampleEnvClasses ==
    {"BMMXAFSTable", "BMMSampleStage", "BMMReferenceStage", "BMMDetectorStage",
     "BMMBeamStop"}

TemperatureClasses == {"BMMLakeShore331", "BMMLinkam"}

Classes ==
    MotorClasses \cup DetectorClasses \cup OpticsClasses \cup SampleEnvClasses
        \cup TemperatureClasses

\* Values an environment variable may hold; "NO" also stands for "unset"
\* (os.environ.get(..., "NO")), "yes" for any other string.
EnvValues == {"YES", "NO", "yes"}

NoDevice == [cls |-> "none", mock_mode |-> FALSE, current_reflection |-> "none",
             d_spacing_111 |-> 0, d_spacing_311 |-> 0, target_temp |-> 0,
             has_bender |-> FALSE]

NoEnv == [k \in {"BMM_MOCK_MODE", "RUNNING_IN_NSLS2_CI"} |-> "NO"]

NoCtor == [cls |-> "none", env |-> NoEnv, connect |-> FALSE, paths |-> <<>>,
           flags |-> <<>>, writes |-> <<>>, raised |-> "none"]

NoCall == [method |-> "none", mock |-> FALSE, ops |-> <<>>, raised |-> "none",
           result |-> "none"]

\* What a conversion gives: a number (kind "value"), a float NaN or
\* infinity, or the exception it raises.
Value(v) == [kind |-> "value", v |-> v]
NaN == [kind |-> "nan", v |-> 0]
Inf == [kind |-> "inf", v |-> 0]
Raise(exc) == [kind |-> exc, v |-> 0]
NoResult == [kind |-> "none", v |-> 0]

Returned(r) == r.kind \in {"value", "nan", "inf"}

NoQuery == [name |-> "none",
            info |-> [name |-> "none", category |-> "None", available |-> FALSE],
            category |-> "none", kind |-> "none", listing |-> <<>>]

\* A plan run seen from the engine: the device calls the plan made itself and
\* the messages it yielded, in order (events), the metadata of the scans it
\* handed over (scans), the exception that ended it, and for a plan followed
\* step by step its loop variables.
NoGen == [plan |-> "none", args |-> <<>>, events |-> <<>>, scans |-> <<>>,
          raised |-> "none", done |-> FALSE, current_pos |-> 0, step_size |-> 0]

\* An event: a yielded message (mv, sleep, trigger_and_read, list_scan) or a
\* direct call of a device method (call).
Msg(op, target, value) == [op |-> op, target |-> target, value |-> value]

NoConv == [last |-> "none", refl_e2b |-> "none", e2b |-> NoResult,
           refl_b2e |-> "none", b2e |-> NoResult]

\* The operations that write to hardware (EPICS put/set, motor move,
\* attribute assignment of a limit); "get" only reads.
WriteOps == {"put", "set", "move", "assign"}

\* d-spacings in units of 1e-5 Angstrom.
DSpacing111 == 313557
DSpacing311 == 163740

\* Temperatures a caller may ask for and a sensor may report.
Temps == {20, 300}

\* Energies are counted in ticks of 0.5 eV, the smallest step a plan uses.
EV == 2

\* Energies passed to the DCM: the multiples of EnergyStep (in eV) up to
\* MaxEnergySteps of them, of either sign, and zero.
EnergyStep == 700
MaxEnergySteps == 43
Energies == {k * EnergyStep * EV : k \in -MaxEnergySteps..MaxEnergySteps}

\* Energy lists passed to xafs_scan directly.
XafsEnergyLists ==
    {<<>>, <<8400 * EV>>, <<8400 * EV, 8401 * EV>>, <<8402 * EV, 8400 * EV>>,
     <<1400 * EV, 8400 * EV>>}

\* Region parameters (start, stop, step) passed to xafs_step_scan.
RegionBound == 5
RegionParams ==
    {<<a, b, c>> : a \in {0, RegionBound}, b \in {0, RegionBound + 1},
                   c \in {-2, 0, 2}}

\* Positions, point counts and motor names passed to the scanning plans.
Positions == {0, 2}
PointCounts == {1, 3}
MotorNames == {"xafs_x", "xafs_y"}

\* Edge energies (eV) and scan-range offsets (eV) passed to
\* transmission_xafs and fluorescence_xafs.
EdgeEnergies == {8000, 8979}
MaxOffset == 120
Offsets == {-MaxOffset, -60, -50, -20, 30, 50, MaxOffset}

\* Energies passed to set_energy in the specification of all devices.
SetEnergyInputs ==
    {-2 * EnergyStep * EV, 0, 2 * EnergyStep * EV, 12 * EnergyStep * EV}

----------------------------------------------------------------------------
(* Construction                                                            *)

\* A mutant of MockEnv: both variables must say YES.
MockEnvAnd(e) == e.BMM_MOCK_MODE = "YES" /\ e.RUNNING_IN_NSLS2_CI = "YES"

\* mock_mode = (BMM_MOCK_MODE == "YES" or RUNNING_IN_NSLS2_CI == "YES")
MockEnv(e) == e.BMM_MOCK_MODE = "YES" \/ e.RUNNING_IN_NSLS2_CI = "YES"

\* A mutant of BaseInit: the fallback forgets self._mock_mode = True.
BaseInitNoFlag(e, connect) ==
    IF MockEnv(e)
    THEN [paths |-> <<"mock">>, flags |-> <<TRUE>>, mock |-> TRUE]
    ELSE IF connect
         THEN [paths |-> <<"prefixed">>, flags |-> <<FALSE>>, mock |-> FALSE]
         ELSE [paths |-> <<"prefixed", "fallback">>, flags |-> <<FALSE>>,
               mock |-> FALSE]

\* The base-class constructor.  flags is the sequence of values assigned to
\* self._mock_mode, paths the sequence of super().__init__ calls made:
\* "mock" (no prefix), "prefixed" (connects to hardware), "fallback" (no
\* prefix, after the prefixed call raised).
BaseInit(e, connect) ==
    IF MockEnv(e)
    THEN [paths |-> <<"mock">>, flags |-> <<TRUE>>, mock |-> TRUE]
    ELSE IF connect
         THEN [paths |-> <<"prefixed">>, flags |-> <<FALSE>>, mock |-> FALSE]
         ELSE [paths |-> <<"prefixed", "fallback">>, flags |-> <<FALSE, TRUE>>,
               mock |-> TRUE]

\* The operations issued by the subclass constructor after the base
\* constructor returned with is_mock = mock.  opt is the class's optional
\* argument or capability: default limits given (XAFSMotor), hvel_sp present
\* (FMBOMotor), has_bender (BMMMirror).
SetupOps(cls, mock, opt) ==
    IF mock THEN <<>>
    ELSE IF cls = "XAFSMotor" /\ opt
         THEN <<(<<"low_limit", "assign">>), (<<"high_limit", "assign">>)>>
    ELSE IF cls = "FMBOMotor" /\ opt
         THEN <<(<<"hvel_sp", "put">>)>>
    ELSE <<>>

\* The exception the subclass constructor lets escape ("none" if it returns).
\* BMMSampleStage calls self._set_default_limits(), which no class defines.
SetupRaises(cls, mock) ==
    IF ~mock /\ cls = "BMMSampleStage" THEN "AttributeError" ELSE "none"

\* The ops of a sequence that were issued when the f-th one failed
\* (f = 0: none failed).
Attempted(ops, f) == IF f = 0 THEN ops ELSE SubSeq(ops, 1, f)

NewDevice(cls, mock, opt) ==
    [cls |-> cls, mock_mode |-> mock,
     current_reflection |-> IF cls = "BMMDCM" THEN "111" ELSE "none",
     d_spacing_111 |-> IF cls = "BMMDCM" THEN DSpacing111 ELSE 0,
     d_spacing_311 |-> IF cls = "BMMDCM" THEN DSpacing311 ELSE 0,
     target_temp |-> IF cls = "BMMLakeShore331" THEN 300
                     ELSE IF cls = "BMMLinkam" THEN 25 ELSE 0,
     has_bender |-> (cls = "BMMMirror" /\ opt)]

Construct ==
    /\ dev = NoDevice
    /\ \E cls \in Classes, connect \in BOOLEAN, opt \in BOOLEAN :
         LET b == BaseInit(env, connect)
             ops == SetupOps(cls, b.mock, opt)
             r == SetupRaises(cls, b.mock)
         IN  \E f \in 0..Len(ops) :
               /\ ctor' = [cls |-> cls, env |-> env,
                           connect |-> connect, paths |-> b.paths,
                           flags |-> b.flags, writes |-> Attempted(ops, f),
                           raised |-> r]
               /\ dev' = IF r = "none" THEN NewDevice(cls, b.mock, opt) ELSE NoDevice
    /\ lastcall' = NoCall
    /\ conv' = NoConv
    /\ UNCHANGED <<env, energy_in, caller_md, run, query, gen>>

\* The program drops its reference to the device.
Discard ==
    /\ dev # NoDevice
    /\ dev' = NoDevice
    /\ ctor' = NoCtor
    /\ lastcall' = NoCall
    /\ conv' = NoConv
    /\ UNCHANGED <<env, energy_in, caller_md, run, query, gen>>

\* The process environment changes after start-up.
SetEnv ==
    /\ \E k \in {"BMM_MOCK_MODE", "RUNNING_IN_NSLS2_CI"}, v \in EnvValues :
         /\ env[k] # v
         /\ env' = [env EXCEPT ![k] = v]
    /\ UNCHANGED <<dev, ctor, lastcall, energy_in, conv, caller_md, run, query, gen>>

----------------------------------------------------------------------------
(* Methods                                                                 *)

\* A mutant of is_mock: the property consults the environment again.
is_mock_env(d) == d.mock_mode /\ MockEnv(env)

\* The is_mock property: return self._mock_mode
is_mock(d) == d.mock_mode

\* A method body: in mock mode the ops of the mock branch run outside any
\* try block, so a failing op raises; in live mode they run inside
\* try/except Exception, so a failing op is logged and swallowed.
Call(method, mockOps, liveOps, f, result) ==
    LET ops == IF is_mock(dev) THEN mockOps ELSE liveOps
    IN  /\ f \in 0..Len(ops)
        /\ lastcall' = [method |-> method, mock |-> is_mock(dev),
                        ops |-> Attempted(ops, f),
                        raised |-> IF is_mock(dev) /\ f # 0 THEN "Exception"
                                   ELSE "none",
                        result |-> result]

Opt(given, ops) == IF given THEN ops ELSE <<>>

set_limits ==
    /\ dev.cls \in MotorClasses
    /\ \E low \in BOOLEAN, high \in BOOLEAN, f \in 0..2 :
         Call("set_limits", <<>>,
              Opt(low, <<(<<"low_limit", "assign">>)>>)
                  \o Opt(high, <<(<<"high_limit", "assign">>)>>),
              f, "None")
    /\ UNCHANGED <<env, dev, ctor, energy_in, conv, caller_md, run, query, gen>>

is_homed ==
    /\ dev.cls = "EncodedMotor"
    /\ \E has_home \in BOOLEAN :
         Call("is_homed", <<>>, <<>>, 0,
              IF is_mock(dev) \/ has_home THEN "Homed" ELSE "Not Homed")
    /\ UNCHANGED <<env, dev, ctor, energy_in, conv, caller_md, run, query, gen>>

align ==
    /\ dev.cls = "BMMMirror"
    /\ \E mode \in {"parallel", "focused", "other"} :
         Call("align", <<>>, <<>>, 0, "None")
    /\ UNCHANGED <<env, dev, ctor, energy_in, conv, caller_md, run, query, gen>>

set_size ==
    /\ dev.cls = "BMMSlits"
    /\ \E h \in BOOLEAN, v \in BOOLEAN, f \in 0..8 :
         Call("set_size", <<>>,
              Opt(h, <<(<<"outboard", "get">>), (<<"inboard", "get">>),
                       (<<"outboard", "move">>), (<<"inboard", "move">>)>>)
                  \o Opt(v, <<(<<"top", "get">>), (<<"bottom", "get">>),
                              (<<"top", "move">>), (<<"bottom", "move">>)>>),
              f, "None")
    /\ UNCHANGED <<env, dev, ctor, energy_in, conv, caller_md, run, query, gen>>

open ==
    /\ dev.cls = "BMMShutter"
    /\ \E f \in 0..1 :
         Call("open", <<(<<"status", "set">>)>>, <<(<<"open_cmd", "put">>)>>,
              f, "None")
    /\ UNCHANGED <<env, dev, ctor, energy_in, conv, caller_md, run, query, gen>>

close ==
    /\ dev.cls = "BMMShutter"
    /\ \E f \in 0..1 :
         Call("close", <<(<<"status", "set">>)>>, <<(<<"close_cmd", "put">>)>>,
              f, "None")
    /\ UNCHANGED <<env, dev, ctor, energy_in, conv, caller_md, run, query, gen>>

\* wait_for_temperature polls the sensor until it is within the threshold of
\* the target or the timeout expires; the sensor readings decide the result.
wait_for_temperature ==
    /\ dev.cls \in TemperatureClasses
    /\ \E stable \in BOOLEAN, f \in 0..1 :
         Call("wait_for_temperature", <<>>,
              <<(<<IF dev.cls = "BMMLinkam" THEN "temperature" ELSE "temp_a",
                   "get">>)>>,
              f,
              IF is_mock(dev) THEN "True"
              ELSE IF f = 0 /\ stable THEN "True" ELSE "False")
    /\ UNCHANGED <<env, dev, ctor, energy_in, conv, caller_md, run, query, gen>>

\* BMMLakeShore331.set_temperature(target_temp, wait)
set_temperature_lakeshore ==
    /\ dev.cls = "BMMLakeShore331"
    /\ \E t \in Temps, wait \in BOOLEAN, f \in 0..3 :
         /\ Call("set_temperature",
                 <<(<<"setpoint", "set">>), (<<"temp_a", "set">>),
                   (<<"temp_b", "set">>)>>,
                 <<(<<"setpoint", "put">>)>>
                     \o Opt(wait, <<(<<"temp_a", "get">>)>>),
                 f, "None")
         \* self._target_temp = target_temp follows a successful put
         /\ dev' = IF ~is_mock(dev) /\ f # 1
                   THEN [dev EXCEPT !.target_temp = t] ELSE dev
    /\ UNCHANGED <<env, ctor, energy_in, conv, caller_md, run, query, gen>>

\* BMMLinkam.set_temperature(target_temp, rate, wait)
set_temperature_linkam ==
    /\ dev.cls = "BMMLinkam"
    /\ \E t \in Temps, cur \in Temps, wait \in BOOLEAN, f \in 0..5 :
         /\ Call("set_temperature",
                 <<(<<"setpoint", "set">>), (<<"temperature", "set">>),
                   (<<"stage_temp", "set">>)>>,
                 <<(<<"temperature", "get">>),
                   (<<IF t > cur THEN "heating_rate" ELSE "cooling_rate", "put">>),
                   (<<"setpoint", "put">>), (<<"start_cmd", "put">>)>>
                     \o Opt(wait, <<(<<"temperature", "get">>)>>),
                 f, "None")
         \* self._target_temp = target_temp follows a successful setpoint put
         /\ dev' = IF ~is_mock(dev) /\ (f = 0 \/ f > 3)
                   THEN [dev EXCEPT !.target_temp = t] ELSE dev
    /\ UNCHANGED <<env, ctor, energy_in, conv, caller_md, run, query, gen>>

hold_temperature ==
    /\ dev.cls = "BMMLinkam"
    /\ \E f \in 0..2 :
         Call("hold_temperature", <<>>,
              <<(<<"temperature", "get">>), (<<"setpoint", "put">>)>>, f, "None")
    /\ UNCHANGED <<env, dev, ctor, energy_in, conv, caller_md, run, query, gen>>

stop_program ==
    /\ dev.cls = "BMMLinkam"
    /\ \E f \in 0..1 :
         Call("stop_program", <<>>, <<(<<"stop_cmd", "put">>)>>, f, "None")
    /\ UNCHANGED <<env, dev, ctor, energy_in, conv, caller_md, run, query, gen>>


----------------------------------------------------------------------------
(* Numbers.  The conversion works on floats; the model computes it in      *)
(* fixed point: sines, radians and wavelengths (Angstrom) in units of      *)
(* 1e-8, degrees in units of 1e-7, returned energies in units of 1e-3 eV.  *)
(* Every intermediate value fits 31 bits.                                  *)

SCALE == 100000000          \* 1.0 in fixed point
SQRT_SCALE == 10000
HALF_PI == 157079633        \* pi/2
DEG_PER_RAD == 572957795    \* 180/pi, radians (1e-8) to degrees (1e-7)
RAD_PER_DEG == 17453293     \* pi/180, degrees (1e-7) to radians (1e-8)
HC == 123984                \* 12398.4 eV*Angstrom, in units of 0.1
MILLI == 1000               \* returned energies are in 1e-3 eV

Abs(x) == IF x < 0 THEN -x ELSE x
Sgn(x) == IF x < 0 THEN -1 ELSE 1

\* floor(a * b / c) for a, b >= 0 and 0 < c < 7e8, by shift and add over the
\* bits of b; qa, ra are quotient and remainder of a * 2^i by c.
RECURSIVE MulDivAcc(_, _, _, _, _, _)
MulDivAcc(b, qa, ra, Q, R, c) ==
    IF b = 0 THEN Q
    ELSE MulDivAcc(b \div 2,
                   IF b \div 2 = 0 THEN 0 ELSE 2 * qa + (2 * ra) \div c,
                   (2 * ra) % c,
                   IF b % 2 = 1 THEN Q + qa + (R + ra) \div c ELSE Q,
                   IF b % 2 = 1 THEN (R + ra) % c ELSE R,
                   c)

MulDiv(a, b, c) == MulDivAcc(b, a \div c, a % c, 0, 0, c)

\* floor(a * b / SCALE) for a, b >= 0: the fixed-point product.
MulS(a, b) ==
    LET a1 == a \div SQRT_SCALE
        a0 == a % SQRT_SCALE
        b1 == b \div SQRT_SCALE
        b0 == b % SQRT_SCALE
    IN  a1 * b1 + (a1 * b0 + a0 * b1 + (a0 * b0) \div SQRT_SCALE) \div SQRT_SCALE

\* sin(x) for 0 <= x <= pi/2 by its Taylor series x - x^3/3! + x^5/5! - ...
RECURSIVE SinSeries(_, _, _, _, _)
SinSeries(term, x2, k, sign, acc) ==
    IF term = 0 THEN acc
    ELSE SinSeries(MulS(term, x2) \div ((k + 1) * (k + 2)), x2, k + 2,
                   -sign, acc + sign * term)

\* np.sin, for |x| <= pi/2
Sin(x) == Sgn(x) * SinSeries(Abs(x), MulS(Abs(x), Abs(x)), 1, 1, 0)

\* The angle in [lo, hi) whose sine is the largest one not above s.
RECURSIVE Bisect(_, _, _)
Bisect(s, lo, hi) ==
    IF hi - lo <= 1 THEN lo
    ELSE LET mid == (lo + hi) \div 2
         IN  IF Sin(mid) <= s THEN Bisect(s, mid, hi) ELSE Bisect(s, lo, mid)

\* np.arcsin, for |s| <= 1
ArcSin(s) == Sgn(s) * Bisect(Abs(s), 0, HALF_PI + 1)

\* np.degrees and np.radians
Degrees(rad) == Sgn(rad) * MulDiv(Abs(rad), DEG_PER_RAD, SCALE)
Radians(deg) == Sgn(deg) * MulDiv(Abs(deg), RAD_PER_DEG, SCALE)

----------------------------------------------------------------------------
(* BMMDCM: energy <-> Bragg angle                                          *)

DSpacingOf(d) ==
    IF d.current_reflection = "111" THEN d.d_spacing_111 ELSE d.d_spacing_311

\* The longest wavelength the fixed point holds (20 Angstrom, more than any
\* 2 * d_spacing): longer ones, from energies below 620 eV, are clamped to it.
MAX_WAVELENGTH == 2000000000
MIN_ENERGY == 620

\* BMMDCM.energy_to_bragg(energy_ev): energy in ticks, angle in 1e-7 degrees.
energy_to_bragg(d, energy_ev) ==
    IF energy_ev = 0 THEN Raise("ZeroDivisionError")
    ELSE LET wavelength ==
                 IF Abs(energy_ev) < MIN_ENERGY * EV
                 THEN Sgn(energy_ev) * MAX_WAVELENGTH
                 ELSE Sgn(energy_ev) * MulDiv(HC * EV, SCALE \div 10, Abs(energy_ev))
             sin_theta == Sgn(wavelength)
                            * MulDiv(Abs(wavelength), 100000, 2 * DSpacingOf(d))
         IN  IF sin_theta > SCALE THEN Raise("ValueError")
             ELSE IF sin_theta < -SCALE THEN NaN   \* np.arcsin outside [-1, 1]
             ELSE Value(Degrees(ArcSin(sin_theta)))

\* BMMDCM.bragg_to_energy(bragg_deg): angle in 1e-7 degrees (or NaN),
\* energy in 1e-3 eV.
bragg_to_energy(d, bragg) ==
    IF bragg.kind # "value" THEN NaN
    ELSE LET theta_rad == Radians(bragg.v)
             sin_theta == Sin(theta_rad)
             wavelength == Sgn(sin_theta)
                             * MulDiv(Abs(sin_theta), 2 * DSpacingOf(d), 100000)
         IN  IF wavelength = 0 THEN Inf
             ELSE Value(Sgn(wavelength)
                          * MulDiv(HC * SQRT_SCALE, MILLI * MILLI, Abs(wavelength)))

\* A mutant of call_energy_to_bragg: the conversion also drives the motor.
call_energy_to_bragg_moving ==
    /\ dev.cls = "BMMDCM"
    /\ conv' = [last |-> "energy_to_bragg",
                refl_e2b |-> dev.current_reflection,
                e2b |-> energy_to_bragg(dev, energy_in),
                refl_b2e |-> "none", b2e |-> NoResult]
    /\ lastcall' = [method |-> "energy_to_bragg", mock |-> is_mock(dev),
                    ops |-> <<(<<"bragg", "move">>)>>, raised |-> "none",
                    result |-> "None"]
    /\ UNCHANGED <<env, dev, ctor, energy_in, caller_md, run, query, gen>>

\* A caller evaluates dcm.energy_to_bragg(energy_in).
call_energy_to_bragg ==
    /\ dev.cls = "BMMDCM"
    /\ conv' = [last |-> "energy_to_bragg",
                refl_e2b |-> dev.current_reflection,
                e2b |-> energy_to_bragg(dev, energy_in),
                refl_b2e |-> "none", b2e |-> NoResult]
    /\ UNCHANGED <<env, dev, ctor, lastcall, energy_in, caller_md, run, query, gen>>

\* A caller evaluates dcm.bragg_to_energy(angle) on the angle the last
\* energy_to_bragg call returned.
call_bragg_to_energy ==
    /\ dev.cls = "BMMDCM"
    /\ Returned(conv.e2b)
    /\ conv' = [conv EXCEPT !.last = "bragg_to_energy",
                            !.refl_b2e = dev.current_reflection,
                            !.b2e = bragg_to_energy(dev, conv.e2b)]
    /\ UNCHANGED <<env, dev, ctor, lastcall, energy_in, caller_md, run, query, gen>>

\* The caller selects the other crystal set: dcm.current_reflection = r.
set_reflection ==
    /\ dev.cls = "BMMDCM"
    /\ \E r \in {"111", "311"} :
         /\ r # dev.current_reflection
         /\ dev' = [dev EXCEPT !.current_reflection = r]
    /\ UNCHANGED <<env, ctor, lastcall, energy_in, conv, caller_md, run, query, gen>>

\* BMMDCM.set_energy(energy_in)
set_energy ==
    /\ dev.cls = "BMMDCM"
    /\ LET bragg_angle == IF is_mock(dev) THEN NoResult
                          ELSE energy_to_bragg(dev, energy_in)
       IN  \E f \in 0..1 :
             Call("set_energy", <<>>,
                  IF Returned(bragg_angle) THEN <<(<<"bragg", "move">>)>> ELSE <<>>,
                  f, "None")
    /\ UNCHANGED <<env, dev, ctor, energy_in, conv, caller_md, run, query, gen>>


----------------------------------------------------------------------------
(* Plans: metadata dictionaries and point lists                            *)

\* A Python dict is a function from its keys; md = None is a separate value.
EmptyDict == <<>>
None == [is_none |-> TRUE, d |-> EmptyDict]
Dict(d) == [is_none |-> FALSE, d |-> d]

\* A mutant of Update: keys already present keep their value (setdefault).
UpdateKeepExisting(d, upd) ==
    [k \in (DOMAIN d) \cup (DOMAIN upd) |-> IF k \in DOMAIN d THEN d[k] ELSE upd[k]]

\* d.update(upd): the keys of upd are set, the other keys of d are kept.
Update(d, upd) ==
    [k \in (DOMAIN d) \cup (DOMAIN upd) |-> IF k \in DOMAIN upd THEN upd[k] ELSE d[k]]

\* if md is None: md = {}
OrEmpty(md) == IF md.is_none THEN EmptyDict ELSE md.d

\* The caller's dictionary after the plan updated md in place: a caller who
\* passed None owns no dictionary.
Aliased(md, d) == IF md.is_none THEN None ELSE Dict(d)

\* ceil(a / b) for b # 0
CeilDiv(a, b) == IF b > 0 THEN -((-a) \div b) ELSE -(a \div (-b))

\* A mutant of ArangeLen: the stop value is included.
ArangeLenInclusive(start, stop, step) ==
    LET q == CeilDiv(stop - start, step)
        n == IF q * step = stop - start THEN q + 1 ELSE q
    IN  IF n > 0 THEN n ELSE 0

\* len(np.arange(start, stop, step)) = max(0, ceil((stop - start) / step))
ArangeLen(start, stop, step) ==
    LET n == CeilDiv(stop - start, step) IN IF n > 0 THEN n ELSE 0

\* np.arange(start, stop, step) for step # 0: start + i * step, i = 0..len-1
Arange(start, stop, step) ==
    [i \in 1..ArangeLen(start, stop, step) |-> start + (i - 1) * step]

\* min(s) and max(s) of a non-empty list
SeqMin(s) ==
    LET S == {s[i] : i \in 1..Len(s)} IN CHOOSE x \in S : \A y \in S : x <= y

SeqMax(s) ==
    LET S == {-s[i] : i \in 1..Len(s)} IN -(CHOOSE x \in S : \A y \in S : x <= y)

NoRun == [plan |-> "none", md_in |-> None, args |-> <<>>, raised |-> "none",
          engine |-> "none", md |-> EmptyDict, positions |-> <<>>,
          pre |-> <<>>, edge |-> <<>>, post |-> <<>>, energy_list |-> <<>>,
          md_delegate |-> EmptyDict, planmd |-> EmptyDict,
          dwell_in |-> [is_none |-> TRUE, l |-> <<>>], dwell_handed |-> <<>>]

\* The energy motors a plan may be given: a plain motor, and the DCM device,
\* which offers energy_to_bragg (reflection 111).
EnergyMotors == {[name |-> "dcm_bragg", has_e2b |-> FALSE],
                 [name |-> "dcm", has_e2b |-> TRUE]}

PlanDCM == NewDevice("BMMDCM", TRUE, FALSE)

\* A mutant of FirstRaise: a failed conversion goes unnoticed.
FirstRaiseNone(rs) == "none"

\* The first exception among conversion results ("none" if all returned).
FirstRaise(rs) ==
    LET bad == {i \in 1..Len(rs) : ~Returned(rs[i])}
    IN  IF bad = {} THEN "none"
        ELSE rs[CHOOSE i \in bad : \A j \in bad : i <= j].kind

\* The dictionary xafs_scan passes to md.update (energy_list not empty).
XafsScanMd(detectors, energy_motor, energy_list) ==
    IF energy_list = <<>> THEN EmptyDict
    ELSE [plan_name |-> "xafs_scan", detectors |-> detectors,
          energy_motor |-> energy_motor.name,
          energy_points |-> Len(energy_list),
          energy_start |-> SeqMin(energy_list),
          energy_stop |-> SeqMax(energy_list)]

\* xafs_scan(detectors, energy_motor, energy_list, dwelltime_list, md), md
\* already a dict: what it raises, the dict after the call, and the
\* list_scan it hands to the engine.  The call is
\* list_scan(detectors, energy_motor, position_list, md=md): it carries no
\* dwell time, so the per-point dwell times handed over are none.
xafs_scan_body(detectors, energy_motor, energy_list, dwelltime_list, md) ==
    LET dwell == IF dwelltime_list.is_none
                 THEN [i \in 1..Len(energy_list) |-> 1]
                 ELSE dwelltime_list.l
    IN  IF Len(energy_list) # Len(dwell) \/ energy_list = <<>>
        THEN \* length mismatch, or min() of an empty list inside md.update
             [raised |-> "ValueError", md |-> md, engine |-> "none",
              positions |-> <<>>, dwell_handed |-> <<>>]
        ELSE
          LET md2 == Update(md, XafsScanMd(detectors, energy_motor, energy_list))
              position_list ==
                  IF energy_motor.has_e2b
                  THEN [i \in 1..Len(energy_list) |->
                           energy_to_bragg(PlanDCM, energy_list[i])]
                  ELSE [i \in 1..Len(energy_list) |-> Value(energy_list[i])]
              exc == FirstRaise(position_list)
          IN  IF exc # "none"
              THEN [raised |-> exc, md |-> md2, engine |-> "none",
                    positions |-> <<>>, dwell_handed |-> <<>>]
              ELSE [raised |-> "none", md |-> md2, engine |-> "list_scan",
                    positions |-> position_list, dwell_handed |-> <<>>]

\* The lists of detector names, dwell-time lists and caller metadata used as
\* plan arguments.
DetectorLists == {<<"I0">>, <<"I0", "It">>}
NoDwell == [is_none |-> TRUE, l |-> <<>>]
Dwell(l) == [is_none |-> FALSE, l |-> l]

CallerMds ==
    {None, Dict(EmptyDict), Dict([sample |-> "Cu foil"]),
     Dict([plan_name |-> "my_plan", operator |-> "user"]),
     Dict([num_points |-> 99, energy_points |-> 7, total_points |-> 5])}


\* The caller is done with the run and starts over with a fresh dictionary.
plan_reset ==
    /\ run # NoRun
    /\ run' = NoRun
    /\ caller_md' = None
    /\ UNCHANGED <<env, dev, ctor, lastcall, energy_in, conv, query, gen>>

\* xafs_scan called directly
xafs_scan ==
    /\ run = NoRun
    /\ \E md \in CallerMds, dets \in DetectorLists, m \in EnergyMotors,
       el \in XafsEnergyLists, dw \in {NoDwell, Dwell(<<2>>), Dwell(<<2, 3>>)} :
      LET r == xafs_scan_body(dets, m, el, dw, OrEmpty(md))
      IN  /\ run' = [NoRun EXCEPT !.plan = "xafs_scan", !.md_in = md,
                                  !.raised = r.raised, !.engine = r.engine,
                                  !.md = IF r.engine = "none" THEN EmptyDict ELSE r.md,
                                  !.positions = r.positions,
                                  !.args = <<m.has_e2b>>,
                                  !.dwell_in = dw,
                                  !.dwell_handed = r.dwell_handed,
                                  !.energy_list = el,
                                  !.planmd = XafsScanMd(dets, m, el)]
          /\ caller_md' = Aliased(md, r.md)
    /\ UNCHANGED <<env, dev, ctor, lastcall, energy_in, conv, query, gen>>

\* A plan that builds three regions and delegates to xafs_scan: regions is
\* <<pre_edge, edge, post_edge>>, upd the plan's own md.update argument.
Delegate(plan, md, args, regions, upd, dets, m) ==
    LET energy_list == regions[1] \o regions[2] \o regions[3]
        md1 == Update(OrEmpty(md), upd)
        r == xafs_scan_body(dets, m, energy_list, NoDwell, md1)
    IN  /\ run' = [NoRun EXCEPT !.plan = plan, !.md_in = md, !.args = args,
                                !.raised = r.raised, !.engine = r.engine,
                                !.md = IF r.engine = "none" THEN EmptyDict ELSE r.md,
                                !.positions = r.positions,
                                !.pre = regions[1], !.edge = regions[2],
                                !.post = regions[3],
                                !.energy_list = energy_list,
                                !.md_delegate = md1, !.planmd = upd]
        /\ caller_md' = Aliased(md, r.md)

\* np.arange raised: nothing was built, md is untouched.
ArangeRaised(plan, md, args) ==
    /\ run' = [NoRun EXCEPT !.plan = plan, !.md_in = md, !.args = args,
                            !.raised = "ZeroDivisionError"]
    /\ caller_md' = md

xafs_step_scan ==
    /\ run = NoRun
    /\ \E md \in CallerMds, m \in EnergyMotors,
          p \in RegionParams, e \in RegionParams, q \in RegionParams :
         IF p[3] = 0 \/ e[3] = 0 \/ q[3] = 0
         THEN ArangeRaised("xafs_step_scan", md, <<p, e, q>>)
         ELSE LET pre_edge == Arange(p[1], p[2], p[3])
                  edge == Arange(e[1], e[2], e[3])
                  post_edge == Arange(q[1], q[2], q[3])
              IN  Delegate("xafs_step_scan", md, <<p, e, q>>,
                           <<pre_edge, edge, post_edge>>,
                           [plan_name |-> "xafs_step_scan",
                            pre_edge_points |-> Len(pre_edge),
                            edge_points |-> Len(edge),
                            post_edge_points |-> Len(post_edge),
                            total_points |-> Len(pre_edge \o edge \o post_edge)],
                           <<"I0", "It">>, m)
    /\ UNCHANGED <<env, dev, ctor, lastcall, energy_in, conv, query, gen>>


\* The three regions transmission_xafs and fluorescence_xafs build, in
\* ticks: steps of 5.0, 0.5 and 2.0 eV, the edge region 50 eV either side.
EdgeRegions(edge_energy, scan_range) ==
    LET start_energy == edge_energy + scan_range[1]
        stop_energy == edge_energy + scan_range[2]
    IN  <<Arange(start_energy * EV, (edge_energy - 50) * EV, 5 * EV),
          Arange((edge_energy - 50) * EV, (edge_energy + 50) * EV, EV \div 2),
          Arange((edge_energy + 50) * EV, stop_energy * EV, 2 * EV)>>

PlainMotor == [name |-> "dcm_bragg", has_e2b |-> FALSE]

transmission_xafs ==
    /\ run = NoRun
    /\ \E md \in CallerMds, edge_energy \in EdgeEnergies,
          s0 \in Offsets, s1 \in Offsets, ir \in BOOLEAN :
         Delegate("transmission_xafs", md, <<edge_energy, s0, s1>>,
                  EdgeRegions(edge_energy, <<s0, s1>>),
                  [sample_name |-> "Cu foil",
                   measurement_type |-> "transmission_xafs",
                   edge_energy |-> edge_energy,
                   scan_range |-> <<s0, s1>>],
                  IF ir THEN <<"I0", "It", "Ir">> ELSE <<"I0", "It">>,
                  PlainMotor)
    /\ UNCHANGED <<env, dev, ctor, lastcall, energy_in, conv, query, gen>>

fluorescence_xafs ==
    /\ run = NoRun
    /\ \E md \in CallerMds, edge_energy \in EdgeEnergies,
          s0 \in Offsets, s1 \in Offsets :
         Delegate("fluorescence_xafs", md, <<edge_energy, s0, s1>>,
                  EdgeRegions(edge_energy, <<s0, s1>>),
                  [sample_name |-> "Cu foil",
                   measurement_type |-> "fluorescence_xafs",
                   edge_energy |-> edge_energy,
                   scan_range |-> <<s0, s1>>],
                  <<"I0", "xs">>, PlainMotor)
    /\ UNCHANGED <<env, dev, ctor, lastcall, energy_in, conv, query, gen>>

\* np.linspace(start, stop, num), in ticks: num evenly spaced points from
\* start to stop, both included (a point between two ticks is rounded down).
Linspace(start, stop, num) ==
    [i \in 1..num |->
        IF num = 1 THEN start ELSE start + ((i - 1) * (stop - start)) \div (num - 1)]

\* Point counts passed to quick_xafs and energy_calibration_scan.
ScanPoints == {0, 1, 4}
CalibrationPoints == {1, 5}

quick_xafs ==
    /\ run = NoRun
    /\ \E md \in CallerMds, m \in EnergyMotors, edge_energy \in EdgeEnergies,
          scan_points \in ScanPoints :
         LET start_energy == edge_energy - 100
             stop_energy == edge_energy + 200
             energy_list == Linspace(start_energy * EV, stop_energy * EV, scan_points)
         IN  Delegate("quick_xafs", md, <<edge_energy, scan_points>>,
                      <<energy_list, <<>>, <<>>>>,
                      [plan_name |-> "quick_xafs", edge_energy |-> edge_energy,
                       scan_points |-> scan_points],
                      <<"I0", "It">>, m)
    /\ UNCHANGED <<env, dev, ctor, lastcall, energy_in, conv, query, gen>>

energy_calibration_scan ==
    /\ run = NoRun
    /\ \E md \in CallerMds, m \in EnergyMotors,
          reference_foil_energy \in EdgeEnergies,
          scan_range \in {<<-20, 20>>, <<20, -20>>},
          num_points \in CalibrationPoints :
         LET start_energy == reference_foil_energy + scan_range[1]
             stop_energy == reference_foil_energy + scan_range[2]
             energy_list == Linspace(start_energy * EV, stop_energy * EV, num_points)
         IN  Delegate("energy_calibration_scan", md,
                      <<reference_foil_energy, scan_range, num_points>>,
                      <<energy_list, <<>>, <<>>>>,
                      [plan_name |-> "energy_calibration_scan",
                       reference_foil_energy |-> reference_foil_energy,
                       scan_range |-> scan_range,
                       purpose |-> "energy_calibration"],
                      <<"I0", "It", "Ir">>, m)
    /\ UNCHANGED <<env, dev, ctor, lastcall, energy_in, conv, query, gen>>

\* A plan that updates md with its own keys and hands one engine plan over:
\* md.update(upd); yield from engine(..., md=md)
Hand(plan, engine, md, args, upd) ==
    LET md1 == Update(OrEmpty(md), upd)
    IN  /\ run' = [NoRun EXCEPT !.plan = plan, !.md_in = md, !.args = args,
                                !.engine = engine, !.md = md1, !.planmd = upd]
        /\ caller_md' = Aliased(md, md1)

count_plan ==
    /\ run = NoRun
    /\ \E md \in CallerMds, dets \in DetectorLists, num \in PointCounts :
         Hand("count_plan", "count", md, <<num>>,
              [plan_name |-> "count_plan", detectors |-> dets, num_points |-> num])
    /\ UNCHANGED <<env, dev, ctor, lastcall, energy_in, conv, query, gen>>

motor_scan_plan ==
    /\ run = NoRun
    /\ \E md \in CallerMds, dets \in DetectorLists, motor \in MotorNames,
          start \in Positions, stop \in Positions, num \in PointCounts :
         Hand("motor_scan_plan", "scan", md, <<start, stop, num>>,
              [plan_name |-> "motor_scan_plan", detectors |-> dets,
               motor |-> motor, scan_start |-> start, scan_stop |-> stop,
               num_points |-> num])
    /\ UNCHANGED <<env, dev, ctor, lastcall, energy_in, conv, query, gen>>

line_scan ==
    /\ run = NoRun
    /\ \E md \in CallerMds, dets \in DetectorLists, motor \in MotorNames,
          start \in Positions, stop \in Positions, num_points \in PointCounts :
         Hand("line_scan", "scan", md, <<start, stop, num_points>>,
              [plan_name |-> "line_scan", detectors |-> dets,
               motor |-> motor, scan_start |-> start, scan_stop |-> stop,
               num_points |-> num_points])
    /\ UNCHANGED <<env, dev, ctor, lastcall, energy_in, conv, query, gen>>

relative_line_scan ==
    /\ run = NoRun
    /\ \E md \in CallerMds, dets \in DetectorLists, motor \in MotorNames,
          start \in Positions, stop \in Positions, num_points \in PointCounts :
         Hand("relative_line_scan", "rel_scan", md, <<start, stop, num_points>>,
              [plan_name |-> "relative_line_scan", detectors |-> dets,
               motor |-> motor, relative_start |-> start,
               relative_stop |-> stop, num_points |-> num_points])
    /\ UNCHANGED <<env, dev, ctor, lastcall, energy_in, conv, query, gen>>

area_scan ==
    /\ run = NoRun
    /\ \E md \in CallerMds, dets \in DetectorLists,
          num1 \in PointCounts, num2 \in PointCounts, snake \in BOOLEAN :
         Hand("area_scan", "grid_scan", md, <<num1, num2>>,
              [plan_name |-> "area_scan", detectors |-> dets,
               motor1 |-> "xafs_y", motor2 |-> "xafs_x",
               scan_shape |-> <<num1, num2>>, total_points |-> num1 * num2,
               snake_scan |-> snake])
    /\ UNCHANGED <<env, dev, ctor, lastcall, energy_in, conv, query, gen>>

\* multi_motor_scan(detectors, motors_and_ranges, num_points, md);
\* motors_and_ranges is a list of (motor, start, stop).
multi_motor_scan ==
    /\ run = NoRun
    /\ \E md \in CallerMds, dets \in DetectorLists, num_points \in PointCounts,
          motors_and_ranges \in
              {<<>>, <<(<<"xafs_x", 0, 2>>)>>,
               <<(<<"xafs_x", 0, 2>>), (<<"xafs_y", 2, 0>>)>>} :
         IF Len(motors_and_ranges) = 0
         THEN /\ run' = [NoRun EXCEPT !.plan = "multi_motor_scan", !.md_in = md,
                                      !.raised = "ValueError"]
              /\ caller_md' = md
         ELSE Hand("multi_motor_scan", "scan", md, motors_and_ranges,
                   [plan_name |-> "multi_motor_scan", detectors |-> dets,
                    motors |->
                        [n \in {motors_and_ranges[i][1] :
                                    i \in 1..Len(motors_and_ranges)} |->
                           LET i == CHOOSE j \in 1..Len(motors_and_ranges) :
                                      /\ motors_and_ranges[j][1] = n
                                      /\ \A k \in (j + 1)..Len(motors_and_ranges) :
                                            motors_and_ranges[k][1] # n
                           IN  [start |-> motors_and_ranges[i][2],
                                stop |-> motors_and_ranges[i][3]]],
                    num_points |-> num_points])
    /\ UNCHANGED <<env, dev, ctor, lastcall, energy_in, conv, query, gen>>

----------------------------------------------------------------------------
(* The plan registry (plans/__init__.py)                                   *)

BASIC_PLANS ==
    <<"move", "mover", "multi_move", "multi_move_relative", "sleep_plan",
      "count_plan", "motor_scan_plan", "safe_move", "wait_for_temperature",
      "motor_status_check", "mv_plan", "mvr_plan", "kmv", "kmvr">>

XAFS_PLANS ==
    <<"xafs_scan", "xafs_step_scan", "transmission_xafs",
      "fluorescence_xafs", "quick_xafs", "xafs_with_temperature",
      "energy_calibration_scan", "copper_xafs", "iron_xafs", "zinc_xafs">>

SCANNING_PLANS ==
    <<"line_scan", "relative_line_scan", "area_scan", "time_scan",
      "fly_scan", "spiral_scan", "raster_scan", "multi_motor_scan",
      "adaptive_scan", "quick_scan", "coarse_scan", "fine_scan">>

ALIGNMENT_PLANS ==
    <<"tune_dcm_pitch", "align_slits", "mirror_alignment",
      "sample_height_scan", "beam_size_measurement", "find_sample_edge",
      "center_sample_on_beam", "energy_calibration_check",
      "quick_mirror_tune", "quick_slit_center">>

UTILITY_PLANS ==
    <<"motor_recovery_plan", "detector_status_check",
      "beamline_status_summary", "energy_system_check",
      "temperature_system_check", "safe_shutdown_sequence",
      "warm_up_sequence", "quick_status_check", "emergency_stop_all_motors",
      "diagnose_motor_issues">>

BITS_PLANS ==
    <<"dm_kickoff_workflow", "dm_list_processing_jobs",
      "dm_submit_workflow_job", "sim_count_plan", "sim_print_plan",
      "sim_rel_scan_plan">>

ALL_PLANS ==
    BASIC_PLANS \o XAFS_PLANS \o SCANNING_PLANS \o ALIGNMENT_PLANS
        \o UTILITY_PLANS \o BITS_PLANS

\* The dict PLAN_CATEGORIES and the order of its keys.
PLAN_CATEGORIES ==
    [basic |-> BASIC_PLANS, xafs |-> XAFS_PLANS, scanning |-> SCANNING_PLANS,
     alignment |-> ALIGNMENT_PLANS, utility |-> UTILITY_PLANS,
     bits |-> BITS_PLANS]

CategoryOrder == <<"basic", "xafs", "scanning", "alignment", "utility", "bits">>

Categories == DOMAIN PLAN_CATEGORIES

\* name in list
InList(n, l) == \E i \in 1..Len(l) : l[i] = n

\* Names and categories a caller may ask about: the registered ones and some
\* that are not; "None" is the category argument left out.
UnknownNames == {"scan", "basic", "xafs_scan_plan"}
PlanNames == {ALL_PLANS[i] : i \in 1..Len(ALL_PLANS)} \cup UnknownNames
CategoryArgs == Categories \cup {"None", "all", "scan"}

\* A mutant of get_plan_info: the last category is never looked at.
get_plan_info_short(plan_name) ==
    LET hits == {i \in 1..(Len(CategoryOrder) - 1) :
                    InList(plan_name, PLAN_CATEGORIES[CategoryOrder[i]])}
    IN  IF hits = {}
        THEN [name |-> plan_name, category |-> "None", available |-> FALSE]
        ELSE [name |-> plan_name,
              category |-> CategoryOrder[CHOOSE i \in hits : \A j \in hits : i <= j],
              available |-> TRUE]

\* get_plan_info: the first category, in dict order, whose list holds the
\* name; category None and available False when there is none.
get_plan_info(plan_name) ==
    LET hits == {i \in 1..Len(CategoryOrder) :
                    InList(plan_name, PLAN_CATEGORIES[CategoryOrder[i]])}
    IN  IF hits = {}
        THEN [name |-> plan_name, category |-> "None", available |-> FALSE]
        ELSE [name |-> plan_name,
              category |-> CategoryOrder[CHOOSE i \in hits : \A j \in hits : i <= j],
              available |-> TRUE]

\* list_plans: the whole dict for None, the category's list for a known
\* category, ValueError otherwise.
list_plans(category) ==
    IF category = "None" THEN [kind |-> "dict", listing |-> <<>>]
    ELSE IF category \in Categories
         THEN [kind |-> "list", listing |-> PLAN_CATEGORIES[category]]
         ELSE [kind |-> "ValueError", listing |-> <<>>]

call_get_plan_info ==
    /\ \E n \in PlanNames :
         /\ query.name # n
         /\ query' = [query EXCEPT !.name = n, !.info = get_plan_info(n)]
    /\ UNCHANGED <<env, dev, ctor, lastcall, energy_in, conv, caller_md, run, gen>>

call_list_plans ==
    /\ \E c \in CategoryArgs :
         /\ query.category # c
         /\ query' = [query EXCEPT !.category = c,
                                   !.kind = list_plans(c).kind,
                                   !.listing = list_plans(c).listing]
    /\ UNCHANGED <<env, dev, ctor, lastcall, energy_in, conv, caller_md, run, gen>>

----------------------------------------------------------------------------
(* Plans that emit their messages one by one                               *)

\* The temperature controllers a plan may be given: the two BMM classes,
\* whose set_temperature is an ordinary method returning None, and a device
\* that has a setpoint but no set_temperature.
TempControllers == TemperatureClasses \cup {"SetpointOnly"}
TemperatureLists == {<<>>, <<300>>, <<300, 20>>, <<20, 300, 20>>}

\* The energy list of xafs_with_temperature, in ticks.
TemperatureScanEnergies(edge_energy) ==
    Arange((edge_energy - 200) * EV, (edge_energy - 50) * EV, 5 * EV)
        \o Arange((edge_energy - 50) * EV, (edge_energy + 50) * EV, EV \div 2)
        \o Arange((edge_energy + 50) * EV, (edge_energy + 800) * EV, 2 * EV)

\* The events of the loop over the temperatures.  With a set_temperature
\* method: the method is called (it sets and waits) and returns None, and
\* "yield from None" raises TypeError, which ends the plan.  Without:
\* mv(setpoint, temp), sleep(300), then the scan.
TemperatureEvents(temp_controller, temperatures, points) ==
    IF temp_controller \in TemperatureClasses
    THEN IF temperatures = <<>> THEN <<>>
         ELSE <<Msg("call", "set_temperature", temperatures[1])>>
    ELSE [i \in 1..(3 * Len(temperatures)) |->
             LET temp == temperatures[(i + 2) \div 3]
             IN  IF i % 3 = 1 THEN Msg("mv", "setpoint", temp)
                 ELSE IF i % 3 = 2 THEN Msg("sleep", "", 300)
                 ELSE Msg("list_scan", "dcm_bragg", points)]

xafs_with_temperature ==
    /\ gen = NoGen
    /\ \E md \in CallerMds, temp_controller \in TempControllers,
          temperatures \in TemperatureLists, edge_energy \in EdgeEnergies :
         LET md1 == Update(OrEmpty(md),
                           [plan_name |-> "xafs_with_temperature",
                            sample_name |-> "Cu foil",
                            temperatures |-> temperatures,
                            edge_energy |-> edge_energy])
             energy_list == TemperatureScanEnergies(edge_energy)
             fails == temp_controller \in TemperatureClasses /\ temperatures # <<>>
             scan(temp) ==
                 xafs_scan_body(<<"I0", "It">>, PlainMotor, energy_list, NoDwell,
                                Update(md1, [temperature |-> temp,
                                             temperature_setpoint |-> temp]))
         IN  /\ gen' = [NoGen EXCEPT
                           !.plan = "xafs_with_temperature",
                           !.args = <<temp_controller, temperatures>>,
                           !.events = TemperatureEvents(temp_controller, temperatures,
                                                        Len(energy_list)),
                           !.scans = IF fails THEN <<>>
                                     ELSE [i \in 1..Len(temperatures) |->
                                              scan(temperatures[i]).md],
                           !.raised = IF fails THEN "TypeError" ELSE "none",
                           !.done = TRUE]
             /\ caller_md' = Aliased(md, md1)
    /\ UNCHANGED <<env, dev, ctor, lastcall, energy_in, conv, run, query>>

\* The motors safe_move may be given, by how their limits read:
\*   "signals"    low_limit and high_limit are signals, .get() gives the limit;
\*   "EpicsMotor" the BMMMotor classes: low_limit and high_limit are the
\*                positioner's properties and give plain floats, which have
\*                no .get();
\*   "unreadable" low_limit.get() raises;
\*   "nolimits"   the attributes do not exist.
MotorKinds == {"signals", "EpicsMotor", "unreadable", "nolimits"}
LowLimit == 0
HighLimit == 2
Targets == {-1, 0, 1, 2, 3}

\* check_motor_limits: the comparison when both limits can be read through
\* .get(); True when the attributes are missing, and True when reading them
\* raises (except Exception: return True).
check_motor_limits(motor, target_position) ==
    IF motor = "signals"
    THEN LowLimit <= target_position /\ target_position <= HighLimit
    ELSE TRUE

safe_move ==
    /\ gen = NoGen
    /\ \E motor \in MotorKinds, target_position \in Targets :
         gen' = IF ~check_motor_limits(motor, target_position)
                THEN [NoGen EXCEPT !.plan = "safe_move",
                                   !.args = <<motor, target_position>>,
                                   !.raised = "ValueError", !.done = TRUE]
                ELSE [NoGen EXCEPT !.plan = "safe_move",
                                   !.args = <<motor, target_position>>,
                                   !.events = <<Msg("mv", "motor", target_position)>>,
                                   !.done = TRUE]
    /\ UNCHANGED <<env, dev, ctor, lastcall, energy_in, conv, caller_md, run, query>>

\* Grid arguments passed to raster_scan: ranges between 0 and 12 and up to
\* MaxGrid points a side.
MaxGrid == 3
GridPoints == 0..MaxGrid
GridPositions == {0, 12}
DwellTimes == {1}

\* x[::-1]
Reverse(x) == [j \in 1..Len(x) |-> x[Len(x) + 1 - j]]

\* A mutant of x_scan_positions: every row runs forward.
x_scan_positions_forward(i, x_positions) == x_positions

\* The x positions of row i (counted from 0): reversed on odd rows.
x_scan_positions(i, x_positions) ==
    IF i % 2 = 1 THEN Reverse(x_positions) ELSE x_positions

\* The messages of raster_scan: per row the y move, then per x position the
\* x move, the sleep and the reading.
RasterEvents(x_positions, y_positions, dwell_time) ==
    LET row_len == 1 + 3 * Len(x_positions)
    IN  [k \in 1..(Len(y_positions) * row_len) |->
           LET i == (k - 1) \div row_len
               within == (k - 1) % row_len
               j == (within - 1) \div 3
           IN  IF within = 0 THEN Msg("mv", "y_motor", y_positions[i + 1])
               ELSE IF (within - 1) % 3 = 0
                    THEN Msg("mv", "x_motor",
                             x_scan_positions(i, x_positions)[j + 1])
               ELSE IF (within - 1) % 3 = 1 THEN Msg("sleep", "", dwell_time)
               ELSE Msg("trigger_and_read", "detectors", 0)]

raster_scan ==
    /\ gen = NoGen
    /\ \E md \in {None, Dict([sample |-> "Cu foil"])},
          x_start \in GridPositions, x_stop \in GridPositions, x_num \in GridPoints,
          y_start \in GridPositions, y_stop \in GridPositions, y_num \in GridPoints,
          dwell_time \in DwellTimes :
         LET md1 == Update(OrEmpty(md),
                           [plan_name |-> "raster_scan",
                            detectors |-> <<"I0", "It">>,
                            x_motor |-> "xafs_x", y_motor |-> "xafs_y",
                            scan_shape |-> <<x_num, y_num>>,
                            dwell_time |-> dwell_time,
                            total_points |-> x_num * y_num])
             x_positions == Linspace(x_start, x_stop, x_num)
             y_positions == Linspace(y_start, y_stop, y_num)
         IN  /\ gen' = [NoGen EXCEPT
                           !.plan = "raster_scan",
                           !.args = <<x_start, x_stop, x_num, y_start, y_stop,
                                      y_num, dwell_time>>,
                           !.events = RasterEvents(x_positions, y_positions, dwell_time),
                           !.done = TRUE]
             /\ caller_md' = Aliased(md, md1)
    /\ UNCHANGED <<env, dev, ctor, lastcall, energy_in, conv, run, query>>

\* Arguments passed to adaptive_scan: ranges that are multiples of 10, so
\* that (stop - start) / 10 is exact, and maximum steps up to MaxStep.
AdaptiveStarts == {0, 10, 50}
AdaptiveStops == {10, 50}
MaxStep == 7
MaxSteps == {3, MaxStep}

Min(a, b) == IF a < b THEN a ELSE b

\* A mutant of next_pos: the step is not cut at stop.
next_pos_uncut(current_pos, step_size, stop) == current_pos + step_size

\* next_pos = min(current_pos + step_size, stop)
next_pos(current_pos, step_size, stop) == Min(current_pos + step_size, stop)

\* adaptive_scan up to its loop: md.update, the initial step size and the
\* move to start.  args is <<start, stop, max_step>>.
adaptive_scan ==
    /\ gen = NoGen
    /\ \E md \in {None, Dict([sample |-> "Cu foil"])},
          start \in AdaptiveStarts, stop \in AdaptiveStops, max_step \in MaxSteps :
         LET md1 == Update(OrEmpty(md),
                           [plan_name |-> "adaptive_scan",
                            detectors |-> <<"I0", "It">>,
                            motor |-> "xafs_x", scan_start |-> start,
                            scan_stop |-> stop, target_delta |-> 5])
         IN  /\ gen' = [NoGen EXCEPT
                           !.plan = "adaptive_scan",
                           !.args = <<start, stop, max_step>>,
                           !.current_pos = start,
                           !.step_size = Min(max_step, (stop - start) \div 10),
                           !.events = <<Msg("mv", "motor", start)>>]
             /\ caller_md' = Aliased(md, md1)
    /\ UNCHANGED <<env, dev, ctor, lastcall, energy_in, conv, run, query>>

\* One turn of "while current_pos < stop": a reading, then the move on.
adaptive_step ==
    /\ gen.plan = "adaptive_scan" /\ ~gen.done
    /\ gen.current_pos < gen.args[2]
    /\ LET next == next_pos(gen.current_pos, gen.step_size, gen.args[2])
       IN  gen' = [gen EXCEPT
                      !.events = @ \o <<Msg("trigger_and_read", "detectors", 0),
                                        Msg("mv", "motor", next)>>,
                      !.current_pos = next]
    /\ UNCHANGED <<env, dev, ctor, lastcall, energy_in, conv, caller_md, run, query>>

\* The loop condition fails: the plan returns.
adaptive_return ==
    /\ gen.plan = "adaptive_scan" /\ ~gen.done
    /\ ~(gen.current_pos < gen.args[2])
    /\ gen' = [gen EXCEPT !.done = TRUE]
    /\ UNCHANGED <<env, dev, ctor, lastcall, energy_in, conv, caller_md, run, query>>

\* The caller is done with the plan run and starts over.
gen_reset ==
    /\ gen.done
    /\ gen' = NoGen
    /\ caller_md' = None
    /\ UNCHANGED <<env, dev, ctor, lastcall, energy_in, conv, run, query>>

----------------------------------------------------------------------------

Init ==
    /\ env \in [{"BMM_MOCK_MODE", "RUNNING_IN_NSLS2_CI"} -> EnvValues]
    /\ dev = NoDevice
    /\ ctor = NoCtor
    /\ lastcall = NoCall
    /\ energy_in \in SetEnergyInputs
    /\ conv = NoConv
    /\ caller_md = None
    /\ run = NoRun
    /\ query = NoQuery
    /\ gen = NoGen

Next ==
    \/ Construct
    \/ Discard
    \/ SetEnv
    \/ set_limits
    \/ is_homed
    \/ align
    \/ set_size
    \/ open
    \/ close
    \/ wait_for_temperature
    \/ set_temperature_lakeshore
    \/ set_temperature_linkam
    \/ hold_temperature
    \/ stop_program
    \/ set_energy

vars == <<env, dev, ctor, lastcall, energy_in, conv, caller_md, run, query, gen>>

Spec == Init /\ [][Next]_vars

\* The DCM alone: a constructed BMMDCM, mock or live, and one energy.
InitDCM ==
    /\ env = NoEnv
    /\ \E mock \in BOOLEAN : dev = NewDevice("BMMDCM", mock, FALSE)
    /\ ctor = NoCtor
    /\ lastcall = NoCall
    /\ energy_in \in Energies
    /\ conv = NoConv
    /\ caller_md = None
    /\ run = NoRun
    /\ query = NoQuery
    /\ gen = NoGen

NextDCM ==
    \/ call_energy_to_bragg
    \/ call_bragg_to_energy
    \/ set_reflection
    \/ set_energy

SpecDCM == InitDCM /\ [][NextDCM]_vars

\* The plans alone: no device is under test.
InitPlans ==
    /\ env = NoEnv
    /\ dev = NoDevice
    /\ ctor = NoCtor
    /\ lastcall = NoCall
    /\ energy_in = 0
    /\ conv = NoConv
    /\ caller_md = None
    /\ run = NoRun
    /\ query = NoQuery
    /\ gen = NoGen

NextPlans ==
    \/ count_plan
    \/ motor_scan_plan
    \/ line_scan
    \/ relative_line_scan
    \/ area_scan
    \/ multi_motor_scan
    \/ xafs_scan
    \/ xafs_step_scan
    \/ transmission_xafs
    \/ fluorescence_xafs
    \/ quick_xafs
    \/ energy_calibration_scan
    \/ plan_reset

SpecPlans == InitPlans /\ [][NextPlans]_vars

\* The registry alone.
NextRegistry ==
    \/ call_get_plan_info
    \/ call_list_plans

SpecRegistry == InitPlans /\ [][NextRegistry]_vars

\* The message-emitting plans alone.
NextMessages ==
    \/ xafs_with_temperature
    \/ safe_move
    \/ raster_scan
    \/ adaptive_scan
    \/ adaptive_step
    \/ adaptive_return
    \/ gen_reset

SpecMessages == InitPlans /\ [][NextMessages]_vars

\* The engine keeps driving a plan it was given until the plan returns.
SpecMessagesFair ==
    SpecMessages /\ WF_vars(adaptive_step) /\ WF_vars(adaptive_return)

----------------------------------------------------------------------------
(* Properties                                                              *)

MockAtConstruction ==
    ctor.env.BMM_MOCK_MODE = "YES" \/ ctor.env.RUNNING_IN_NSLS2_CI = "YES"

\* C1: once the constructor has returned, is_mock never changes, whatever
\* method is called and however the environment variables change; a mock
\* device never becomes live again.
C1_IsMockFixed ==
    [][(dev # NoDevice /\ dev' # NoDevice) => (is_mock(dev))' = is_mock(dev)]_vars

\* A device built as mock under a mock environment, used after the
\* environment switched to live.
C1_Witness ==
    /\ dev # NoDevice /\ is_mock(dev) /\ MockAtConstruction
    /\ env.BMM_MOCK_MODE = "NO" /\ env.RUNNING_IN_NSLS2_CI = "NO"
    /\ lastcall.method = "set_temperature"

\* C2: in a live environment, when the hardware connection fails the
\* constructor does not raise: it takes the fallback initialisation and the
\* device is mock; the flag went from False to True exactly once.
C2_FallbackToMock ==
    (ctor.cls # "none" /\ ~MockAtConstruction /\ ~ctor.connect)
        => /\ ctor.raised = "none"
           /\ dev # NoDevice /\ dev.cls = ctor.cls /\ is_mock(dev)
           /\ ctor.paths = <<"prefixed", "fallback">>
           /\ ctor.flags = <<FALSE, TRUE>>

C2_Witness ==
    /\ ctor.cls = "BMMSampleStage" /\ ~MockAtConstruction /\ ~ctor.connect
    /\ dev.cls = "BMMSampleStage" /\ is_mock(dev)

\* C3: in a live environment with a successful connection, the subclass
\* setup steps never let an exception escape: every class constructs.
C3_SetupNeverRaises ==
    (ctor.cls # "none" /\ ~MockAtConstruction /\ ctor.connect)
        => (ctor.raised = "none" /\ dev # NoDevice /\ dev.cls = ctor.cls)

\* C4: under a mock environment every class constructs, the device is mock
\* and the prefixed, hardware-connecting constructor path is not taken.
C4_MockEnvConstructs ==
    (ctor.cls # "none" /\ MockAtConstruction)
        => /\ ctor.raised = "none"
           /\ dev # NoDevice /\ dev.cls = ctor.cls /\ is_mock(dev)
           /\ ctor.paths = <<"mock">>
           /\ ctor.writes = <<>>

C4_Witness ==
    /\ ctor.cls = "BMMSampleStage"
    /\ ctor.env.BMM_MOCK_MODE = "NO" /\ ctor.env.RUNNING_IN_NSLS2_CI = "YES"
    /\ dev.cls = "BMMSampleStage" /\ is_mock(dev)

\* The command signals, setpoint signals and motors of the device classes.
CommandSignals ==
    {"open_cmd", "close_cmd", "setpoint", "start_cmd", "stop_cmd",
     "heating_rate", "cooling_rate", "bragg", "inboard", "outboard", "top",
     "bottom", "low_limit", "high_limit", "hvel_sp"}

\* C5: on a mock device no method issues a put, set or move on a command
\* signal, a setpoint signal or a motor.
C5_MockNoHardwareWrite ==
    lastcall.mock
        => \A i \in 1..Len(lastcall.ops) :
              ~(lastcall.ops[i][1] \in CommandSignals
                  /\ lastcall.ops[i][2] \in WriteOps)

\* A round trip: bragg_to_energy applied to the result of energy_to_bragg
\* under one reflection.
RoundTripDone ==
    /\ conv.last = "bragg_to_energy"
    /\ conv.refl_e2b = conv.refl_b2e
    /\ conv.refl_b2e = dev.current_reflection

\* C6: for every energy energy_to_bragg accepts (returns for), under either
\* reflection, bragg_to_energy(energy_to_bragg(E)) is within 1 eV of E.
C6_RoundTripWithin1eV ==
    RoundTripDone
        => /\ conv.b2e.kind = "value"
           /\ Abs(EV * conv.b2e.v - MILLI * energy_in) < EV * MILLI

\* ... which holds wherever energy_to_bragg returned a number.
RoundTripOfAngles ==
    (RoundTripDone /\ conv.e2b.kind = "value")
        => /\ conv.b2e.kind = "value"
           /\ Abs(EV * conv.b2e.v - MILLI * energy_in) < EV * MILLI

\* A step in which one of the two conversions was called.
ConversionStep ==
    /\ conv' # conv
    /\ conv'.last \in {"energy_to_bragg", "bragg_to_energy"}

\* C7: a conversion call leaves the DCM (reflection, d-spacings, mock flag)
\* unchanged and issues no motor move, and a call repeated with the same
\* argument under the same reflection returns the same result.
C7_ConversionsPure ==
    [][ConversionStep =>
          /\ dev' = dev
          /\ lastcall' = lastcall
          /\ (/\ conv'.last = "energy_to_bragg"
              /\ conv.e2b # NoResult
              /\ conv'.refl_e2b = conv.refl_e2b) => conv'.e2b = conv.e2b
          /\ (/\ conv'.last = "bragg_to_energy"
              /\ conv.b2e # NoResult
              /\ conv'.refl_b2e = conv.refl_b2e) => conv'.b2e = conv.b2e]_vars

\* Both conversions were called on a live DCM switched to reflection 311,
\* after set_energy had moved the bragg motor.
C7_Witness ==
    /\ conv.last = "bragg_to_energy" /\ conv.b2e.kind = "value"
    /\ dev.current_reflection = "311" /\ ~is_mock(dev)
    /\ lastcall.method = "set_energy" /\ Len(lastcall.ops) = 1

\* r is start, start + step, ... and stops just before going past stop in
\* the direction of step.
RegionTowards(r, p) ==
    /\ \A i \in 1..Len(r) :
          /\ r[i] = p[1] + (i - 1) * p[3]
          /\ IF p[3] > 0 THEN r[i] < p[2] ELSE r[i] > p[2]
    /\ IF p[3] > 0 THEN p[1] + Len(r) * p[3] >= p[2]
       ELSE p[1] + Len(r) * p[3] <= p[2]

\* r is start, start + step, ...: all the points strictly below stop.
RegionBelowStop(r, p) ==
    /\ \A i \in 1..Len(r) : r[i] = p[1] + (i - 1) * p[3] /\ r[i] < p[2]
    /\ p[1] + Len(r) * p[3] >= p[2]

\* The energy list is pre-edge, edge, post-edge in this order, and the
\* metadata counts are the lengths.
StepScanCounts ==
    /\ run.energy_list = run.pre \o run.edge \o run.post
    /\ run.md_delegate.pre_edge_points = Len(run.pre)
    /\ run.md_delegate.edge_points = Len(run.edge)
    /\ run.md_delegate.post_edge_points = Len(run.post)
    /\ run.md_delegate.total_points = Len(run.pre) + Len(run.edge) + Len(run.post)
    /\ run.md_delegate.total_points = Len(run.energy_list)
    /\ run.engine # "none" =>
          /\ run.md.total_points = Len(run.positions)
          /\ run.md.pre_edge_points = Len(run.pre)
          /\ run.md.edge_points = Len(run.edge)
          /\ run.md.post_edge_points = Len(run.post)

StepScanBuilt == run.plan = "xafs_step_scan" /\ run.raised # "ZeroDivisionError"

\* C8 as stated: every region of xafs_step_scan is the sequence start,
\* start + step, ... of all points strictly below its stop; the list is
\* their concatenation and the metadata counts are their lengths.
C8_RegionsBelowStop ==
    StepScanBuilt
        => /\ RegionBelowStop(run.pre, run.args[1])
           /\ RegionBelowStop(run.edge, run.args[2])
           /\ RegionBelowStop(run.post, run.args[3])
           /\ StepScanCounts

\* C8 amended: a region with a positive step holds the points strictly below
\* its stop, one with a negative step descends through the points strictly
\* above its stop; concatenation and counts as stated.
C8_RegionsTowardsStop ==
    StepScanBuilt
        => /\ RegionTowards(run.pre, run.args[1])
           /\ RegionTowards(run.edge, run.args[2])
           /\ RegionTowards(run.post, run.args[3])
           /\ StepScanCounts

C8_Witness ==
    /\ run.plan = "xafs_step_scan" /\ run.engine = "list_scan"
    /\ run.args = <<(<<0, RegionBound + 1, 2>>), (<<RegionBound, RegionBound + 1, 2>>),
                    (<<RegionBound, 0, -2>>)>>
    /\ Len(run.pre) > 1 /\ Len(run.post) > 1
    /\ Len(run.positions) = Len(run.pre) + 1 + Len(run.post)

\* C9: for start_offset < stop_offset the energy list of transmission_xafs
\* and fluorescence_xafs is strictly increasing and lies within
\* [edge_energy + start_offset, edge_energy + stop_offset).
C9_EdgeScanWithinRange ==
    (run.plan \in {"transmission_xafs", "fluorescence_xafs"}
        /\ run.args[2] < run.args[3])
        => /\ \A i \in 1..(Len(run.energy_list) - 1) :
                 run.energy_list[i] < run.energy_list[i + 1]
           /\ \A i \in 1..Len(run.energy_list) :
                 /\ run.energy_list[i] >= (run.args[1] + run.args[2]) * EV
                 /\ run.energy_list[i] < (run.args[1] + run.args[3]) * EV

\* The keys each plan sets in md.
PlanKeys(plan) ==
    CASE plan = "count_plan" -> {"plan_name", "detectors", "num_points"}
      [] plan \in {"motor_scan_plan", "line_scan"} ->
            {"plan_name", "detectors", "motor", "scan_start", "scan_stop",
             "num_points"}
      [] plan = "relative_line_scan" ->
            {"plan_name", "detectors", "motor", "relative_start",
             "relative_stop", "num_points"}
      [] plan = "area_scan" ->
            {"plan_name", "detectors", "motor1", "motor2", "scan_shape",
             "total_points", "snake_scan"}
      [] plan = "multi_motor_scan" ->
            {"plan_name", "detectors", "motors", "num_points"}
      [] plan = "xafs_scan" ->
            {"plan_name", "detectors", "energy_motor", "energy_points",
             "energy_start", "energy_stop"}
      [] OTHER -> {}

\* C10: the metadata a plan hands to the engine holds every pair the caller
\* supplied, except that the keys the plan sets carry the plan's values; with
\* md = None it holds exactly the plan's keys.
C10_MetadataMerged ==
    (PlanKeys(run.plan) # {} /\ run.engine # "none")
        => LET given == OrEmpty(run.md_in)
           IN  /\ DOMAIN run.planmd = PlanKeys(run.plan)
               /\ run.planmd.plan_name = run.plan
               /\ DOMAIN run.md = (DOMAIN given) \cup PlanKeys(run.plan)
               /\ \A k \in PlanKeys(run.plan) : run.md[k] = run.planmd[k]
               /\ \A k \in (DOMAIN given) \ PlanKeys(run.plan) :
                     run.md[k] = given[k]
               /\ run.md_in.is_none => DOMAIN run.md = PlanKeys(run.plan)

C10_Witness ==
    /\ run.plan = "line_scan" /\ run.engine = "scan"
    /\ run.md_in = Dict([plan_name |-> "my_plan", operator |-> "user"])
    /\ run.md.plan_name = "line_scan" /\ run.md.operator = "user"

\* C11: the plan registry is consistent: a name is in at most one category;
\* get_plan_info(n) says available with category c exactly when n is in
\* list_plans(c), and unavailable with category None exactly when n is in no
\* category, that is not in ALL_PLANS.
C11_RegistryConsistent ==
    query.name # "none"
        => /\ Cardinality({c \in Categories :
                              InList(query.name, list_plans(c).listing)}) <= 1
           /\ query.info.name = query.name
           /\ \A c \in Categories :
                 (query.info.available /\ query.info.category = c)
                    <=> InList(query.name, list_plans(c).listing)
           /\ query.kind = "list" =>
                 ((query.info.available /\ query.info.category = query.category)
                    <=> InList(query.name, query.listing))
           /\ (~query.info.available /\ query.info.category = "None")
                 <=> ~InList(query.name, ALL_PLANS)
           /\ query.info.available \/ query.info.category = "None"

C11_Witness ==
    /\ query.name = "sim_count_plan" /\ query.category = "bits"
    /\ query.info.available /\ query.info.category = "bits"
    /\ InList("sim_count_plan", query.listing)

\* The dwell times xafs_scan is asked for: dwelltime_list, or 1.0 s per point.
DwellAsked ==
    IF run.dwell_in.is_none THEN [i \in 1..Len(run.energy_list) |-> 1]
    ELSE run.dwell_in.l

\* C12: in xafs_scan the i-th entry of dwelltime_list (1.0 s when it is None)
\* is the dwell time of the i-th point of the scan handed to the engine.
C12_DwellPerPoint ==
    (run.plan = "xafs_scan" /\ run.engine = "list_scan")
        => /\ Len(run.dwell_handed) = Len(run.positions)
           /\ \A i \in 1..Len(run.positions) : run.dwell_handed[i] = DwellAsked[i]

\* What xafs_scan is to hand over for energy e: the converted position when
\* the motor offers energy_to_bragg, e itself otherwise.
PositionOf(e) ==
    IF run.args[1] THEN energy_to_bragg(PlanDCM, e) ELSE Value(e)

AllConvert == \A i \in 1..Len(run.energy_list) : Returned(PositionOf(run.energy_list[i]))

OneListScan ==
    /\ run.engine = "list_scan" /\ run.raised = "none"
    /\ Len(run.positions) = Len(run.energy_list)
    /\ \A i \in 1..Len(run.energy_list) :
          run.positions[i] = PositionOf(run.energy_list[i])

NoScan(exc) == run.engine = "none" /\ run.positions = <<>> /\ run.raised \in exc

\* C13 as stated: xafs_scan raises ValueError and hands nothing when the
\* lengths differ; otherwise it hands one list scan whose positions follow
\* energy_list in length and order, converted when the motor converts; a
\* failed conversion means no scan at all.
C13_OneScanOrNone ==
    run.plan = "xafs_scan"
        => IF Len(run.energy_list) # Len(DwellAsked) THEN NoScan({"ValueError"})
           ELSE IF AllConvert THEN OneListScan
           ELSE NoScan({"ValueError", "ZeroDivisionError"})

\* C13 amended: an empty energy_list, too, ends in ValueError with no scan.
C13_OneScanOrNoneNonEmpty ==
    run.plan = "xafs_scan"
        => IF Len(run.energy_list) # Len(DwellAsked) \/ run.energy_list = <<>>
           THEN NoScan({"ValueError"})
           ELSE IF AllConvert THEN OneListScan
           ELSE NoScan({"ValueError", "ZeroDivisionError"})

C13_Witness ==
    /\ run.plan = "xafs_scan" /\ run.engine = "list_scan"
    /\ run.args = <<TRUE>>
    /\ run.energy_list = <<8402 * EV, 8400 * EV>>
    /\ run.positions[1].kind = "value"
    /\ run.positions[1].v < run.positions[2].v

\* Energy e is achievable with the reflection of d: it is positive and
\* energy_to_bragg finds an angle in (0, 90] degrees for it.
Achievable(d, e) ==
    /\ e > 0
    /\ energy_to_bragg(d, e).kind = "value"
    /\ energy_to_bragg(d, e).v > 0
    /\ energy_to_bragg(d, e).v <= Degrees(HALF_PI)

\* C14: energy_to_bragg returns an angle only for achievable energies and
\* raises ValueError for every other one, zero and negative ones included;
\* a live set_energy issues no bragg move for a rejected energy and does
\* not raise.
C14_RejectsUnachievable ==
    /\ (conv.last = "energy_to_bragg" /\ conv.refl_e2b = dev.current_reflection)
          => IF Achievable(dev, energy_in) THEN conv.e2b.kind = "value"
             ELSE conv.e2b.kind = "ValueError"
    /\ (lastcall.method = "set_energy" /\ ~lastcall.mock)
          => /\ lastcall.raised = "none"
             /\ lastcall.ops # <<>> =>
                   \E r \in {"111", "311"} :
                      Achievable([dev EXCEPT !.current_reflection = r], energy_in)

\* C15: the metadata handed to the engine for a run started through
\* xafs_step_scan, quick_xafs or energy_calibration_scan carries the name of
\* the plan that was invoked as plan_name, as that plan set it.
C15_PlanNameOfInvokedPlan ==
    (run.plan \in {"xafs_step_scan", "quick_xafs", "energy_calibration_scan"}
        /\ run.engine # "none")
        => /\ run.md_delegate.plan_name = run.plan
           /\ run.md.plan_name = run.plan

\* C16: xafs_with_temperature with a BMM temperature controller takes the
\* temperatures in list order: for each it first commands the controller to
\* that temperature and waits, then hands one XAFS scan whose metadata
\* records that temperature; it produces len(temperatures) scans, and the
\* caller's md never receives the per-temperature keys.
C16_SetThenScanPerTemperature ==
    (gen.plan = "xafs_with_temperature" /\ gen.args[1] \in TemperatureClasses)
        => LET temperatures == gen.args[2]
           IN  /\ gen.raised = "none"
               /\ Len(gen.scans) = Len(temperatures)
               /\ Len(gen.events) = 2 * Len(temperatures)
               /\ \A i \in 1..Len(temperatures) :
                     /\ gen.events[2 * i - 1]
                           = Msg("call", "set_temperature", temperatures[i])
                     /\ gen.events[2 * i].op = "list_scan"
                     /\ gen.scans[i].temperature = temperatures[i]
               /\ DOMAIN OrEmpty(caller_md)
                     \cap {"temperature", "temperature_setpoint"} = {}

\* C17: safe_move emits the move to target_position only if the target lies
\* within the motor's limits, and raises ValueError without a move
\* otherwise, for every motor: the BMMMotor classes and motors whose limits
\* cannot be read included.
C17_MoveOnlyWithinLimits ==
    gen.plan = "safe_move"
        => IF LowLimit <= gen.args[2] /\ gen.args[2] <= HighLimit
           THEN gen.raised = "none"
                   /\ gen.events = <<Msg("mv", "motor", gen.args[2])>>
           ELSE gen.raised = "ValueError" /\ gen.events = <<>>

\* The indices of the events with the given op and target.
EventsWith(op, target) ==
    {k \in 1..Len(gen.events) :
        gen.events[k].op = op /\ gen.events[k].target = target}

\* The x move of the j-th reading of row i (both counted from 0).
RasterXMove(i, j) == gen.events[i * (1 + 3 * gen.args[3]) + 3 * j + 2]

\* x_num * y_num readings; every reading comes right after the move to its
\* x position and a sleep of dwell_time; the y motor moves once per row,
\* before the row's first x move, to the y positions in their order.
RasterGrid ==
    LET x_num == gen.args[3]
        y_num == gen.args[6]
        y_positions == Linspace(gen.args[4], gen.args[5], y_num)
    IN  /\ Cardinality(EventsWith("trigger_and_read", "detectors")) = x_num * y_num
        /\ Cardinality(EventsWith("mv", "y_motor")) = y_num
        /\ Cardinality(EventsWith("mv", "x_motor")) = x_num * y_num
        /\ Len(gen.events) = y_num * (1 + 3 * x_num)
        /\ \A i \in 0..(y_num - 1) :
              gen.events[i * (1 + 3 * x_num) + 1]
                 = Msg("mv", "y_motor", y_positions[i + 1])
        /\ \A k \in EventsWith("trigger_and_read", "detectors") :
              /\ k >= 3
              /\ gen.events[k - 1] = Msg("sleep", "", gen.args[7])
              /\ gen.events[k - 2].op = "mv"
              /\ gen.events[k - 2].target = "x_motor"

\* C18 as stated: the grid is read point by point, rows in the order of the
\* y positions, x ascending on even rows and descending on odd rows.
C18_RasterSnakeAscending ==
    gen.plan = "raster_scan"
        => /\ RasterGrid
           /\ \A i \in 0..(gen.args[6] - 1) :
                 \A j \in 0..(gen.args[3] - 2) :
                    IF i % 2 = 0
                    THEN RasterXMove(i, j).value <= RasterXMove(i, j + 1).value
                    ELSE RasterXMove(i, j).value >= RasterXMove(i, j + 1).value

\* C18 amended: x runs in the order of linspace(x_start, x_stop, x_num) on
\* even rows, whichever way that points, and in the reverse order on odd
\* rows.
C18_RasterSnake ==
    gen.plan = "raster_scan"
        => /\ RasterGrid
           /\ LET x_positions == Linspace(gen.args[1], gen.args[2], gen.args[3])
              IN  \A i \in 0..(gen.args[6] - 1) :
                     \A j \in 0..(gen.args[3] - 1) :
                        RasterXMove(i, j).value
                           = IF i % 2 = 0 THEN x_positions[j + 1]
                             ELSE x_positions[gen.args[3] - j]

C18_Witness ==
    /\ gen.plan = "raster_scan"
    /\ gen.args = <<12, 0, MaxGrid, 0, 12, 2, 1>>
    /\ gen.events[2] = Msg("mv", "x_motor", 12)
    /\ gen.events[Len(gen.events) - 2] = Msg("mv", "x_motor", 12)
    /\ Cardinality(EventsWith("trigger_and_read", "detectors")) = 2 * MaxGrid

\* What an adaptive_scan run has emitted so far: the move to start, then
\* readings and moves in turn; for start < stop the moves strictly increase
\* in steps of at most max_step and never pass stop, and a finished run ends
\* with the move to stop; for start >= stop there is the move to start only.
AdaptiveOrder ==
    gen.plan = "adaptive_scan"
        => LET start == gen.args[1]
               stop == gen.args[2]
               max_step == gen.args[3]
               n == Len(gen.events)
           IN  /\ n >= 1 /\ n % 2 = 1
               /\ gen.events[1] = Msg("mv", "motor", start)
               /\ \A k \in 2..n :
                     IF k % 2 = 0
                     THEN gen.events[k] = Msg("trigger_and_read", "detectors", 0)
                     ELSE /\ gen.events[k].op = "mv"
                          /\ gen.events[k].target = "motor"
                          /\ gen.events[k].value > gen.events[k - 2].value
                          /\ gen.events[k].value - gen.events[k - 2].value <= max_step
                          /\ gen.events[k].value <= stop
               /\ gen.raised = "none"
               /\ start >= stop => n = 1
               /\ (gen.done /\ start < stop) =>
                     (n >= 3 /\ gen.events[n] = Msg("mv", "motor", stop))

\* C19: for start < stop and max_step > 0 adaptive_scan terminates; its
\* moves begin at start, strictly increase in steps of at most max_step,
\* never pass stop and end at stop, with one reading at every position but
\* the last; for start >= stop it moves to start and takes no reading.
C19_AdaptiveTerminates ==
    /\ []AdaptiveOrder
    /\ (gen.plan = "adaptive_scan") ~> (gen.plan = "adaptive_scan" /\ gen.done)

C19_Witness ==
    /\ gen.plan = "adaptive_scan" /\ gen.done
    /\ gen.args = <<10, 50, 3>>
    /\ Len(gen.events) = 29
    /\ gen.events[27] = Msg("mv", "motor", 49)
    /\ gen.events[29] = Msg("mv", "motor", 50)

====
